---- MODULE Spec2Model ----
(***************************************************************************)
(* Host side of the refreshable Braille display: the serial Transport      *)
(* (communication/serial_manager.py, class SerialManager) and the group    *)
(* pipeline of the GUI controller (gui/controller_gui.py, class            *)
(* BrailleControllerGUI).                                                  *)
(*                                                                         *)
(* Threads of control: the Tk main thread, which runs the GUI handlers and *)
(* the root.after timers one at a time, and one reader thread per          *)
(* successful connect (SerialManager._read_serial), which runs the message *)
(* callback process_serial_message itself.  No lock is taken anywhere in   *)
(* the source, so the steps of the threads interleave freely.              *)
(***************************************************************************)
EXTENDS Integers, Sequences, FiniteSets, TLC

(* ------------------------------- bounds -------------------------------- *)
MaxLen == 3          \* longest raw text typed into the entry
MaxMsgLen == 5       \* longest received line, in lexemes, of the recognition runs
MaxBits == 7         \* longest pattern token of a report
MaxConnects == 2     \* serial handles (and reader threads) ever created
MaxSubmits == 2      \* sends with a non-empty text
MaxDelay == 1        \* largest char_delay, in clock ticks
MaxRx == 1           \* lines the input buffer of the port holds
MaxGroup == 3        \* largest group size tried
ShortLen == 2        \* longest raw text in the runs with arbitrary telemetry
UnitLen == 1         \* longest raw text in the runs of the Transport
PipeConnects == 1    \* serial handles created in the runs of the pipeline
LongLen == 5         \* length of the text in the runs with three groups

(* -------------------------- program constants -------------------------- *)
MinGroupSize == 1    \* Spinbox from_
MaxGroupSize == 7    \* Spinbox to

Chars == {"a", "b"}
Alphabet == Chars \cup {" "}
GroupSizes == MinGroupSize..(IF MaxGroup < MaxGroupSize THEN MaxGroup ELSE MaxGroupSize)
Delays == 0..MaxDelay
Threads == 1..MaxConnects

VARIABLES
  \* SerialManager
  connection,          \* self.connection: 0 is None, else the handle's id
  openH,               \* the handles whose is_open is true
  is_connected,        \* self.is_connected
  stop_thread,         \* self._stop_thread
  read_thread,         \* self._read_thread: 0 is None, else the thread's id
  rpc,                 \* each reader thread's position in _read_serial
  held,                \* each reader thread's local `line`
  \* the serial link and the device behind it
  rxbuf,               \* received lines not yet read
  devq,                \* characters of the last TEXT command the device has yet to report
  \* BrailleControllerGUI
  current_text,
  current_text_groups, \* << >> while the attribute is not set
  current_group_index,
  char_delay_var,
  char_count_var,      \* the group size spin box; one character display per unit
  char_displays,       \* the letter each character display shows
  timers,              \* root.after callbacks, in firing order
  mpc,                 \* position of the main thread
  closed,              \* the window was closed (root.destroy)
  \* history
  nextH,               \* handles created so far
  sid,                 \* sessions submitted so far
  subG,                \* group size of the last submit
  textLog,             \* TEXT commands written since the last submit began
  done,                \* <<session, group>>: an event equal to the group's last character was handled
  lastSend,            \* the last call of send_text / send_configuration
  lastErr,             \* what the last Transport call raised
  clean,               \* since the last submit: written, link up, telemetry only from the device
  discarded,           \* the current session was cancelled by a disconnect
  ioErr,               \* a reader ended on an I/O error since the last connect
  discRuns,            \* disconnects completed since the last connect
  torn,                \* a disconnect closed the handle under a running read iteration
  \* calls of the functions that keep no state
  call,                \* [fn, arg]: the function called and its argument
  result,              \* what the call returned; NoResult before it has run
  \* history
  reads,               \* n: lines handed to the message callback so far, modulo 2;
                       \* miss: the last of them ended in "except ValueError" (line 369);
                       \* late: the last of them was handed over after a disconnect
                       \* had returned
  lastRead,            \* the last line a reader took off the link: n counts them modulo 2;
                       \* pos is the position it was attributed to, -1 for none;
                       \* groups and index are the session state it was read under
  matched,             \* positions of the group in flight that an event was attributed to
  subDelay,            \* char_delay_var when the last submit with a text began
  empties,             \* submits with nothing to send since the last one with a text,
                       \* modulo 2
  obs                  \* which of the history variables are kept in this run

vars == << connection, openH, is_connected, stop_thread, read_thread, rpc, held,
           rxbuf, devq, current_text, current_text_groups, current_group_index,
           char_delay_var, char_count_var, char_displays, timers, mpc, closed, nextH,
           sid, subG, textLog,
           done, lastSend, lastErr, clean, discarded, ioErr, discRuns, torn, reads,
           lastRead, matched, subDelay, empties, obs, call, result >>

transportVars == << connection, openH, is_connected, stop_thread, read_thread, held >>
sessionVars == << current_text, current_text_groups, current_group_index >>
histVars == << sid, subG, textLog, done, lastSend, clean, discarded, reads,
              lastRead, matched, subDelay, empties, obs,
              call, result >>

(* ------------------------------ helpers -------------------------------- *)
\* the history variables of group `name` follow the run only when they are kept;
\* they are never read by an action's guard or by a program variable's update
Kept(name, new, old) == IF name \in obs THEN new ELSE old

Min(a, b) == IF a < b THEN a ELSE b

\* str.strip() for the blank the model knows
RECURSIVE LStrip(_)
LStrip(s) == IF s # << >> /\ Head(s) = " " THEN LStrip(Tail(s)) ELSE s

RECURSIVE RStrip(_)
RStrip(s) == IF s # << >> /\ s[Len(s)] = " " THEN RStrip(SubSeq(s, 1, Len(s) - 1)) ELSE s

Strip(s) == RStrip(LStrip(s))

\* range(0, len(text), n): the start offsets of the slices
ChunkStarts(L, n) == { i \in 0..(L - 1) : i % n = 0 }

\* [text[i:i+n] for i in range(0, len(text), n)]
Chunk(text, n) ==
  [ k \in 1..Cardinality(ChunkStarts(Len(text), n)) |->
      SubSeq(text, (k - 1) * n + 1, Min(k * n, Len(text))) ]

\* str.index(sub): the lowest 0-based offset where sub occurs, -1 for ValueError
Occurs(grp, tok, i) ==
  /\ i + Len(tok) <= Len(grp)
  /\ \A j \in 1..Len(tok) : grp[i + j] = tok[j]

\* a lookup that answers position 0 for a character that is absent
IndexOrFirst(grp, tok) ==
  LET hits == { i \in 0..Len(grp) : Occurs(grp, tok, i) }
  IN  IF hits = {} THEN 0 ELSE CHOOSE i \in hits : \A j \in hits : i <= j

Index(grp, tok) ==
  LET hits == { i \in 0..Len(grp) : Occurs(grp, tok, i) }
  IN  IF hits = {} THEN -1 ELSE CHOOSE i \in hits : \A j \in hits : i <= j

\* parts[0].split(":")[1].strip() of the report the device sends for character c
Token(c) == Strip(<< c >>)

RawTexts(maxlen) == UNION { [1..n -> Alphabet] : n \in 0..maxlen }
Tokens == { << >> } \cup { << c >> : c \in Chars }

\* the text "ababa..." of n characters
Alternating(n) == [ i \in 1..n |-> IF i % 2 = 1 THEN "a" ELSE "b" ]
Lines == [isChar : {TRUE}, tok : Tokens] \cup { [isChar |-> FALSE, tok |-> << >>] }

\* the letter of a display that shows no character: "-"
Blank == << "-" >>

NoSend == [kind |-> "none", conn |-> TRUE, err |-> "none", wrote |-> FALSE, cleared |-> FALSE]

\* no call yet
NoCall == [fn |-> "none", arg |-> << >>]
NoResult == [kind |-> "none"]

\* the local `line` of a reader that holds no line
NoLine == [isChar |-> FALSE, tok |-> << >>]

\* no line read yet
NoRead == [n |-> 0, decoded |-> TRUE, line |-> [isChar |-> FALSE, tok |-> << >>],
           pos |-> -1, groups |-> << >>, index |-> 0]

\* a line whose bytes are no valid UTF-8
Undecodable == [isChar |-> FALSE, tok |-> << "\\xff" >>]

\* the controller and its Transport after construction
MachineInit(kept) ==
  /\ obs = kept
  /\ connection = 0
  /\ openH = {}
  /\ is_connected = FALSE
  /\ stop_thread = FALSE
  /\ read_thread = 0
  /\ rpc = [t \in Threads |-> "dead"]
  /\ held = [t \in Threads |-> NoLine]
  /\ rxbuf = << >>
  /\ devq = << >>
  /\ current_text = << >>
  /\ current_text_groups = << >>
  /\ current_group_index = 0
  /\ char_delay_var \in Delays
  /\ char_count_var = MinGroupSize
  /\ char_displays = [ k \in 1..MinGroupSize |-> Blank ]
  /\ timers = << >>
  /\ mpc = "idle"
  /\ closed = FALSE
  /\ nextH = 0
  /\ sid = 0
  /\ subG = 0
  /\ textLog = << >>
  /\ done = {}
  /\ lastSend = NoSend
  /\ lastErr = "none"
  /\ clean = FALSE
  /\ discarded = FALSE
  /\ ioErr = FALSE
  /\ discRuns = 0
  /\ torn = FALSE
  /\ reads = [n |-> 0, miss |-> FALSE, late |-> FALSE]
  /\ lastRead = NoRead
  /\ matched = {}
  /\ subDelay = 0
  /\ empties = 0

Init(kept) == MachineInit(kept) /\ call = NoCall /\ result = NoResult

MainIdle == mpc = "idle" /\ ~closed


(* ------------------- SerialManager: sending commands ------------------- *)
\* the handle self.connection refers to is open
HandleOpen == connection # 0 /\ connection \in openH

\* a send that does not look at is_connected
SendAllowedUnchecked == TRUE

\* send_text / send_configuration go on only past "if not self.is_connected: raise"
SendAllowed == is_connected

\* what send_text(text, ...) raises; wok: the port accepts the write
SendTextOutcome(text, wok) ==
  IF ~SendAllowed THEN "NotConnected"
  ELSE IF Strip(text) = << >> THEN "EmptyText"
  ELSE IF ~HandleOpen \/ ~wok THEN "SendFailure"
  ELSE "none"

\* what send_configuration(...) raises
SendConfigOutcome(wok) ==
  IF ~SendAllowed THEN "NotConnected"
  ELSE IF ~HandleOpen \/ ~wok THEN "SendFailure"
  ELSE "none"

\* send_text reached reset_input_buffer() on an open handle
BuffersCleared(text) == SendAllowed /\ Strip(text) # << >> /\ HandleOpen

\* send_configuration calls neither reset_input_buffer() nor reset_output_buffer()
ConfigBuffersCleared == FALSE

\* send_text as called with `text`; meta describes the caller for the history
DoSendText(text, wok, base, meta) ==
  LET out == SendTextOutcome(text, wok)
  IN  /\ lastSend' = Kept("send", [kind |-> "TEXT", conn |-> is_connected,
                                        err |-> out, wrote |-> (out = "none"),
                                        cleared |-> BuffersCleared(text)], lastSend)
      /\ rxbuf' = IF BuffersCleared(text) THEN << >> ELSE rxbuf
      /\ devq' = IF out = "none" THEN text ELSE devq
      /\ textLog' = Kept("sess", IF out = "none"
                                  THEN Append(base, [text |-> text] @@ meta)
                                  ELSE base, textLog)

(* -------------------- SerialManager: connect/disconnect ---------------- *)
\* connect(""): ValueError
ConnectInvalidPort ==
  /\ MainIdle /\ ~is_connected
  /\ UNCHANGED vars

\* connect(port): serial.Serial(...) raises, nothing is assigned
ConnectFailure ==
  /\ MainIdle /\ ~is_connected
  /\ UNCHANGED vars

\* connect(port): a new handle is opened and assigned; the DTR toggle resets the
\* device; the caller then sleeps for the boot delay
ConnectOpen(limit) ==
  /\ MainIdle /\ ~is_connected
  /\ nextH < limit
  /\ nextH' = nextH + 1
  /\ connection' = nextH + 1
  /\ openH' = openH \cup {nextH + 1}
  /\ rxbuf' = << >>
  /\ devq' = << >>
  /\ mpc' = "conn_wait"
  /\ clean' = FALSE
  /\ discRuns' = 0
  /\ UNCHANGED << is_connected, stop_thread, read_thread, rpc, held, sessionVars,
                  char_delay_var, char_count_var, char_displays, timers, closed, sid, subG, textLog, done,
                  lastSend, discarded, lastErr, ioErr, torn, reads,
                  lastRead, matched, subDelay, empties, obs, call, result >>

\* connect(port), after the sleep: flags set, reader thread started
ConnectFinish ==
  /\ mpc = "conn_wait"
  /\ is_connected' = TRUE
  /\ stop_thread' = FALSE
  /\ read_thread' = connection
  /\ rpc' = [rpc EXCEPT ![connection] = "loop"]
  /\ mpc' = "idle"
  /\ ioErr' = FALSE
  /\ UNCHANGED << connection, openH, held, rxbuf, devq, sessionVars, char_delay_var, char_count_var, char_displays,
                  timers, closed, nextH, histVars, lastErr, discRuns, torn >>

\* a Serial object no attribute refers to any more is closed by its finalizer
Finalize(h) ==
  /\ h \in openH /\ h # connection
  /\ openH' = openH \ {h}
  /\ UNCHANGED << connection, is_connected, stop_thread, read_thread, rpc, held, rxbuf,
                  devq, sessionVars, char_delay_var, char_count_var, char_displays, timers, mpc, closed, nextH,
                  histVars, lastErr, ioErr, discRuns, torn >>

\* disconnect(), first two statements
DisconnectBegin(next) ==
  /\ stop_thread' = TRUE
  /\ is_connected' = FALSE
  /\ mpc' = next
  /\ clean' = FALSE
  /\ discarded' = Kept("sess", discarded \/ sid > 0, discarded)
  /\ UNCHANGED << connection, openH, read_thread, rpc, held, rxbuf, devq, sessionVars,
                  char_delay_var, char_count_var, char_displays, timers, closed, nextH, sid, subG, textLog, done,
                  lastSend, lastErr, ioErr, discRuns, torn, reads,
                  lastRead, matched, subDelay, empties, obs, call, result >>

\* _toggle_connection when connected
ToggleDisconnect == MainIdle /\ is_connected /\ DisconnectBegin("disc_join")

\* _on_closing
OnClosing == MainIdle /\ DisconnectBegin("close_join")

\* a close guarded by "self.connection.is_open" alone
CloseWantedNoNoneTest == connection = 0 \/ connection \in openH

\* "if self.connection and self.connection.is_open"
CloseWanted == connection # 0 /\ connection \in openH

\* a reader thread that is inside an iteration of its loop
InIteration(t) == rpc[t] = "adv"

\* disconnect(), the rest: join(timeout=1) has returned, because the thread ended
\* or because the second passed; then the handle is closed
DisconnectFinish ==
  /\ mpc \in {"disc_join", "close_join"}
  /\ IF CloseWanted /\ connection = 0
     THEN /\ lastErr' = "AttributeError"
          /\ UNCHANGED << openH, rxbuf, torn, reads,
                  lastRead, matched, subDelay, empties, obs, call, result >>
     ELSE /\ lastErr' = "none"
          /\ openH' = IF CloseWanted THEN openH \ {connection} ELSE openH
          /\ rxbuf' = IF CloseWanted THEN << >> ELSE rxbuf
          /\ torn' = Kept("disc", torn \/ (CloseWanted /\ \E t \in Threads : InIteration(t)), torn)
  /\ discRuns' = Kept("disc", Min(discRuns + 1, 2), discRuns)
  /\ mpc' = "idle"
  /\ closed' = (mpc = "close_join")
  /\ UNCHANGED << connection, is_connected, stop_thread, read_thread, rpc, held, devq,
                  sessionVars, char_delay_var, char_count_var, char_displays, timers, nextH, histVars, ioErr >>

(* ------------------- SerialManager: the reader thread ------------------ *)
\* the while condition of _read_serial
LoopCond == ~stop_thread /\ is_connected /\ connection # 0 /\ connection \in openH

\* the condition is false: the loop is left
ReaderLoopExit(t) ==
  /\ ~closed /\ rpc[t] = "loop" /\ ~LoopCond
  /\ rpc' = [rpc EXCEPT ![t] = "exit"]
  /\ UNCHANGED << transportVars, rxbuf, devq, sessionVars, char_delay_var, char_count_var, char_displays, timers,
                  mpc, closed, nextH, histVars, lastErr, ioErr, discRuns, torn >>

\* in_waiting or readline() raises serial.SerialException: break
ReaderIOError(t) ==
  /\ ~closed /\ rpc[t] = "loop" /\ LoopCond
  /\ rpc' = [rpc EXCEPT ![t] = "exit_err"]
  /\ clean' = FALSE
  /\ UNCHANGED << transportVars, rxbuf, devq, sessionVars, char_delay_var, char_count_var, char_displays, timers,
                  mpc, closed, nextH, sid, subG, textLog, done, lastSend, discarded,
                  lastErr, ioErr, discRuns, torn, reads,
                  lastRead, matched, subDelay, empties, obs, call, result >>

\* after the loop: self.is_connected = False, and the thread ends
ReaderExit(t) ==
  /\ ~closed /\ rpc[t] \in {"exit", "exit_err"}
  /\ is_connected' = FALSE
  /\ rpc' = [rpc EXCEPT ![t] = "dead"]
  /\ ioErr' = Kept("send", ioErr \/ rpc[t] = "exit_err", ioErr)
  /\ UNCHANGED << connection, openH, stop_thread, read_thread, held, rxbuf, devq,
                  sessionVars, char_delay_var, char_count_var, char_displays, timers, mpc, closed, nextH, histVars,
                  lastErr, discRuns, torn >>

(* --------------- BrailleControllerGUI.process_serial_message ----------- *)
\* "hasattr(self, 'current_text_groups') and self.current_text_groups", and the
\* subscript current_text_groups[current_group_index] does not raise IndexError
GroupInFlight ==
  /\ current_text_groups # << >>
  /\ current_group_index < Len(current_text_groups)

\* current_group = self.current_text_groups[self.current_group_index]
CurrentGroup == current_text_groups[current_group_index + 1]

\* display = self.char_displays[char_position] does not raise IndexError
HasDisplay(pos) == pos < char_count_var

\* a completion that waits for an event at every earlier position of the group
CompletesGroupAllMatched(line) ==
  /\ line.isChar
  /\ GroupInFlight
  /\ Index(CurrentGroup, line.tok) >= 0
  /\ HasDisplay(Index(CurrentGroup, line.tok))
  /\ Index(CurrentGroup, line.tok) = Len(CurrentGroup) - 1
  /\ \A j \in 0..(Len(CurrentGroup) - 2) : j \in matched

\* the event is attributed to the last position of the group in flight
\* (char_position == len(current_group) - 1)
CompletesGroup(line) ==
  /\ line.isChar
  /\ GroupInFlight
  /\ Index(CurrentGroup, line.tok) >= 0
  /\ HasDisplay(Index(CurrentGroup, line.tok))
  /\ Index(CurrentGroup, line.tok) = Len(CurrentGroup) - 1

\* the event's character is the last character of the group in flight
IsLastChar(line) ==
  /\ line.isChar
  /\ GroupInFlight
  /\ line.tok = << CurrentGroup[Len(CurrentGroup)] >>

\* current_group.index(char) raises ValueError, which is logged
NotInGroup(line) == line.isChar /\ GroupInFlight /\ Index(CurrentGroup, line.tok) < 0

\* display = self.char_displays[char_position]; display.current_letter = char
ShowLetter(line) ==
  IF line.isChar /\ GroupInFlight /\ Index(CurrentGroup, line.tok) >= 0
       /\ HasDisplay(Index(CurrentGroup, line.tok))
  THEN [char_displays EXCEPT ![Index(CurrentGroup, line.tok) + 1] = line.tok]
  ELSE char_displays

\* a disconnect has returned and no connect was made since
AfterDisconnect == discRuns >= 1 /\ mpc = "idle"

\* the position an event is attributed to (char_position), -1 when it is
\* attributed to none
Attributed(line) ==
  IF line.isChar /\ GroupInFlight /\ Index(CurrentGroup, line.tok) >= 0
       /\ HasDisplay(Index(CurrentGroup, line.tok))
  THEN Index(CurrentGroup, line.tok)
  ELSE -1

\* the record of a line taken off the link
ReadOf(line, decoded) ==
  [n |-> 1 - lastRead.n, decoded |-> decoded, line |-> line,
   pos |-> IF decoded THEN Attributed(line) ELSE -1,
   groups |-> current_text_groups, index |-> current_group_index]

\* one iteration of the loop with a line waiting: readline(), then the callback
\* up to the test "if char_position == len(current_group) - 1"
ReaderRead(t) ==
  /\ ~closed /\ rpc[t] = "loop" /\ LoopCond
  /\ rxbuf # << >> /\ Head(rxbuf) # Undecodable
  /\ lastRead' = Kept("attr", ReadOf(Head(rxbuf), TRUE), lastRead)
  /\ matched' = Kept("attr", IF Attributed(Head(rxbuf)) >= 0
                              THEN matched \cup { Attributed(Head(rxbuf)) }
                              ELSE matched, matched)
  /\ rxbuf' = Tail(rxbuf)
  /\ rpc' = [rpc EXCEPT ![t] = IF CompletesGroup(Head(rxbuf)) THEN "adv" ELSE "loop"]
  /\ char_displays' = Kept("disp", ShowLetter(Head(rxbuf)), char_displays)
  /\ reads' = Kept("disp", [n |-> 1 - reads.n, miss |-> NotInGroup(Head(rxbuf)),
                            late |-> AfterDisconnect], reads)
  /\ done' = Kept("sess", IF IsLastChar(Head(rxbuf))
                          THEN done \cup { << sid, current_group_index >> }
                          ELSE done, done)
  /\ UNCHANGED << transportVars, devq, sessionVars, char_delay_var, char_count_var, timers, mpc,
                  closed, nextH, sid, subG, textLog, lastSend, clean, discarded,
                  lastErr, ioErr, discRuns, torn, subDelay, empties, obs, call, result >>

\* The same iteration in its three steps, for the runs in which a disconnect may
\* fall between them.  First the while condition and in_waiting:
ReaderEnter(t) ==
  /\ ~closed /\ rpc[t] = "loop" /\ LoopCond
  /\ rxbuf # << >>
  /\ rpc' = [rpc EXCEPT ![t] = "read"]
  /\ UNCHANGED << transportVars, rxbuf, devq, sessionVars, char_delay_var, char_count_var,
                  char_displays, timers, mpc, closed, nextH, histVars, lastErr, ioErr,
                  discRuns, torn >>

\* readline(): on a handle closed in the meantime it raises SerialException; on
\* a buffer emptied in the meantime it times out with an empty line, for which
\* the callback is not called; else the line is taken
ReaderReadline(t) ==
  /\ ~closed /\ rpc[t] = "read"
  /\ IF ~HandleOpen
     THEN /\ rpc' = [rpc EXCEPT ![t] = "exit_err"]
          /\ UNCHANGED << held, rxbuf >>
     ELSE IF rxbuf = << >>
     THEN /\ rpc' = [rpc EXCEPT ![t] = "loop"]
          /\ UNCHANGED << held, rxbuf >>
     ELSE /\ rpc' = [rpc EXCEPT ![t] = "call"]
          /\ held' = [held EXCEPT ![t] = Head(rxbuf)]
          /\ rxbuf' = Tail(rxbuf)
  /\ UNCHANGED << connection, openH, is_connected, stop_thread, read_thread, devq,
                  sessionVars, char_delay_var, char_count_var, char_displays, timers, mpc,
                  closed, nextH, histVars, lastErr, ioErr, discRuns, torn >>

\* self.message_callback(line), up to the test
\* "if char_position == len(current_group) - 1"
ReaderCallback(t) ==
  /\ ~closed /\ rpc[t] = "call"
  /\ rpc' = [rpc EXCEPT ![t] = IF CompletesGroup(held[t]) THEN "adv" ELSE "loop"]
  /\ held' = [held EXCEPT ![t] = NoLine]
  /\ char_displays' = Kept("disp", ShowLetter(held[t]), char_displays)
  /\ reads' = Kept("disp", [n |-> 1 - reads.n, miss |-> NotInGroup(held[t]),
                            late |-> AfterDisconnect], reads)
  /\ lastRead' = Kept("attr", ReadOf(held[t], TRUE), lastRead)
  /\ matched' = Kept("attr", IF Attributed(held[t]) >= 0
                              THEN matched \cup { Attributed(held[t]) }
                              ELSE matched, matched)
  /\ done' = Kept("sess", IF IsLastChar(held[t])
                          THEN done \cup { << sid, current_group_index >> }
                          ELSE done, done)
  /\ UNCHANGED << connection, openH, is_connected, stop_thread, read_thread, rxbuf, devq,
                  sessionVars, char_delay_var, char_count_var, timers, mpc, closed, nextH,
                  sid, subG, textLog, lastSend, clean, discarded, lastErr, ioErr,
                  discRuns, torn, subDelay, empties, obs, call, result >>

\* a reader that leaves its loop at a line it cannot decode
AfterDecodeErrorBreak == "exit"

\* "except UnicodeDecodeError: ... continue": the reader goes on with the loop
AfterDecodeError == "loop"

\* one iteration of the loop with a line waiting that is no valid text:
\* readline().decode() raises UnicodeDecodeError and the callback is not called
ReaderDecodeError(t) ==
  /\ ~closed /\ rpc[t] = "loop" /\ LoopCond
  /\ rxbuf # << >> /\ Head(rxbuf) = Undecodable
  /\ rxbuf' = Tail(rxbuf)
  /\ rpc' = [rpc EXCEPT ![t] = AfterDecodeError]
  /\ lastRead' = Kept("attr", ReadOf(Head(rxbuf), FALSE), lastRead)
  /\ UNCHANGED << transportVars, devq, sessionVars, char_delay_var, char_count_var,
                  char_displays, timers, mpc, closed, nextH, sid, subG, textLog, done,
                  lastSend, clean, discarded, lastErr, ioErr, discRuns, torn, reads,
                  matched, subDelay, empties, obs, call, result >>

\* root.after(ms, f): f is queued behind the callbacks due no later than it
InsertTimer(ts, tm) ==
  LET k == Cardinality({ i \in 1..Len(ts) : ts[i].rem <= tm.rem })
  IN  SubSeq(ts, 1, k) \o << tm >> \o SubSeq(ts, k + 1, Len(ts))

\* the delay handed to root.after: int(self.char_delay_var.get())
AfterDelay == char_delay_var

\* the rest of the callback: the group index moves on and, if a group is left,
\* its send is scheduled
ReaderAdvance(t) ==
  /\ ~closed /\ rpc[t] = "adv"
  /\ current_group_index' = current_group_index + 1
  /\ timers' =
       IF current_group_index + 1 < Len(current_text_groups)
       THEN InsertTimer(timers,
              [text |-> current_text_groups[current_group_index + 2],
               rem |-> AfterDelay,
               delay |-> Kept("sess", char_delay_var, 0), age |-> 0,
               sid |-> sid, gidx |-> Kept("sess", current_group_index + 1, 0)])
       ELSE timers
  /\ rpc' = [rpc EXCEPT ![t] = "loop"]
  /\ matched' = Kept("attr", {}, matched)
  /\ UNCHANGED << transportVars, rxbuf, devq, current_text, current_text_groups,
                  char_delay_var, char_count_var, char_displays, mpc, closed, nextH,
                  sid, subG, textLog, done, lastSend, clean, discarded, reads, lastRead,
                  subDelay, empties, obs, call, result, lastErr, ioErr, discRuns, torn >>

(* ------------------------- the Tk main thread -------------------------- *)
\* time passes: every pending callback comes one tick closer
Tick ==
  /\ \E i \in 1..Len(timers) : timers[i].rem > 0
  /\ timers' = [ i \in 1..Len(timers) |->
                   IF timers[i].rem > 0
                   THEN [timers[i] EXCEPT !.rem = @ - 1, !.age = Kept("sess", @ + 1, @)]
                   ELSE timers[i] ]
  /\ UNCHANGED << transportVars, rpc, rxbuf, devq, sessionVars, char_delay_var, char_count_var, char_displays,
                  mpc, closed, nextH, histVars, lastErr, ioErr, discRuns, torn >>

\* the callback scheduled by process_serial_message:
\* lambda: self.serial_manager.send_text(next_group, char_delay, servo_delay)
TimerFire(wok) ==
  /\ MainIdle
  /\ timers # << >> /\ Head(timers).rem = 0
  /\ LET tm == Head(timers)
     IN  /\ DoSendText(tm.text, wok, textLog,
                       [sid |-> tm.sid, gidx |-> tm.gidx, src |-> "timer",
                        delay |-> tm.delay, waited |-> tm.age,
                        stale |-> (tm.sid # sid \/ discarded)])
         /\ clean' = Kept("sess", clean /\ SendTextOutcome(tm.text, wok) = "none"
                                         /\ rxbuf = << >> /\ devq = << >>, clean)
  /\ timers' = Tail(timers)
  /\ UNCHANGED << transportVars, rpc, sessionVars, char_delay_var, char_count_var, char_displays, mpc, closed,
                  nextH, sid, subG, done, discarded, lastErr, ioErr, discRuns, torn, reads,
                  lastRead, matched, subDelay, empties, obs, call, result >>

\* an empty group list stored before the text is tested
GroupsOnEmptyStored == << >>

\* the ValueError of line 251 is raised before anything is stored (line 258 on)
GroupsOnEmpty == current_text_groups

\* _send_text with nothing left after strip(): ValueError, reported in a dialog
SubmitEmpty(raw) ==
  /\ MainIdle
  /\ Strip(raw) = << >>
  /\ current_text_groups' = GroupsOnEmpty
  /\ empties' = Kept("cfg", 1 - empties, empties)
  /\ UNCHANGED << transportVars, rpc, rxbuf, devq, current_text, current_group_index,
                  char_delay_var, char_count_var, char_displays, timers, mpc, closed,
                  nextH, sid, subG, textLog, done, lastSend, clean, discarded, reads,
                  lastRead, matched, subDelay, obs, call, result, lastErr, ioErr,
                  discRuns, torn >>

\* num_active_chars == 1: only text[0] is sent and no group list is built
SingleCharMode(g) == g = 1

\* what _send_text hands to send_text: text[0], or the first group
SubmitFirst(text, g) == IF SingleCharMode(g) THEN << text[1] >> ELSE Chunk(text, g)[1]

\* _update_character_displays: displays are dropped from the end or blank ones added
Resized(ds, n) == [ k \in 1..n |-> IF k <= Len(ds) THEN ds[k] ELSE Blank ]

\* the spin box is set to g (one character display per unit of it), then
\* _send_text runs with a text
Submit(raw, g, wok) ==
  /\ MainIdle
  /\ Strip(raw) # << >>
  /\ sid < MaxSubmits
  /\ LET text == Strip(raw)
         first == SubmitFirst(text, g)
     IN  /\ current_text' = text
         /\ current_text_groups' =
              IF SingleCharMode(g) THEN current_text_groups ELSE Chunk(text, g)
         /\ current_group_index' =
              IF SingleCharMode(g) THEN current_group_index ELSE 0
         /\ DoSendText(first, wok, << >>,
                       [sid |-> sid + 1, gidx |-> 0, src |-> "submit",
                        delay |-> 0, waited |-> 0, stale |-> FALSE])
         /\ clean' = Kept("sess", SendTextOutcome(first, wok) = "none", clean)
  /\ char_count_var' = g
  /\ char_displays' = Kept("disp", IF SendTextOutcome(SubmitFirst(Strip(raw), g), wok) = "none"
                                    THEN [ k \in 1..g |-> Blank ]
                                    ELSE Resized(char_displays, g), char_displays)
  /\ sid' = Kept("sess", sid + 1, sid)
  /\ subG' = Kept("sess", g, subG)
  /\ discarded' = FALSE
  /\ matched' = Kept("attr", IF SingleCharMode(g) THEN matched ELSE {}, matched)
  /\ subDelay' = Kept("cfg", char_delay_var, subDelay)
  /\ empties' = Kept("cfg", 0, empties)
  /\ UNCHANGED << transportVars, rpc, char_delay_var, timers, mpc, closed, nextH,
                  done, lastErr, ioErr, discRuns, torn, reads,
                  lastRead, obs, call, result >>

\* the user edits the character delay entry
EditCharDelay(d) ==
  /\ MainIdle
  /\ d # char_delay_var
  /\ char_delay_var' = d
  /\ UNCHANGED << transportVars, rpc, rxbuf, devq, sessionVars, char_count_var, char_displays, timers, mpc, closed,
                  nextH, histVars, lastErr, ioErr, discRuns, torn >>

\* _on_dual_servo_toggle: "if self.serial_manager.is_connected:"
DualServoToggle ==
  /\ MainIdle
  /\ mpc' = IF is_connected THEN "cfg_send" ELSE "idle"
  /\ UNCHANGED << transportVars, rpc, rxbuf, devq, sessionVars, char_delay_var, char_count_var, char_displays,
                  timers, closed, nextH, histVars, lastErr, ioErr, discRuns, torn >>

\* ... then send_configuration(dual_servo_mode)
SendConfiguration(wok) ==
  /\ mpc = "cfg_send"
  /\ lastSend' = Kept("send", [kind |-> "CONFIG", conn |-> is_connected,
                                err |-> SendConfigOutcome(wok),
                                wrote |-> (SendConfigOutcome(wok) = "none"),
                                cleared |-> ConfigBuffersCleared], lastSend)
  /\ mpc' = "idle"
  /\ UNCHANGED << transportVars, rpc, rxbuf, devq, sessionVars, char_delay_var, char_count_var, char_displays,
                  timers, closed, nextH, sid, subG, textLog, done, clean, discarded,
                  lastErr, ioErr, discRuns, torn, reads,
                  lastRead, matched, subDelay, empties, obs, call, result >>

(* ------------------------------ the device ----------------------------- *)
LinkUp == connection # 0 /\ connection \in openH

\* the device reports the next character of the command it is rendering
DeviceReport ==
  /\ LinkUp /\ devq # << >> /\ Len(rxbuf) < MaxRx
  /\ rxbuf' = Append(rxbuf, [isChar |-> TRUE, tok |-> Token(Head(devq))])
  /\ devq' = Tail(devq)
  /\ UNCHANGED << transportVars, rpc, sessionVars, char_delay_var, char_count_var, char_displays, timers, mpc,
                  closed, nextH, histVars, lastErr, ioErr, discRuns, torn >>

\* any other line arrives: a log line, or a report that is late, repeated or
\* out of order
DeviceNoise(line) ==
  /\ LinkUp /\ Len(rxbuf) < MaxRx
  /\ rxbuf' = Append(rxbuf, line)
  /\ clean' = FALSE
  /\ UNCHANGED << transportVars, rpc, devq, sessionVars, char_delay_var, char_count_var, char_displays, timers,
                  mpc, closed, nextH, sid, subG, textLog, done, lastSend, discarded,
                  lastErr, ioErr, discRuns, torn, reads,
                  lastRead, matched, subDelay, empties, obs, call, result >>

\* bytes arrive that are no valid text
DeviceGarbage ==
  /\ LinkUp /\ Len(rxbuf) < MaxRx
  /\ rxbuf' = Append(rxbuf, Undecodable)
  /\ clean' = FALSE
  /\ UNCHANGED << transportVars, rpc, devq, sessionVars, char_delay_var, char_count_var,
                  char_displays, timers, mpc, closed, nextH, sid, subG, textLog, done,
                  lastSend, discarded, lastErr, ioErr, discRuns, torn, reads, lastRead,
                  matched, subDelay, empties, obs, call, result >>

(* ------------- process_serial_message: reading a received line --------- *)
\* A line is a sequence of lexemes: a word ("Character", "Pattern"), a mark
\* (":", "->", " "), a letter, a digit.  No lexeme is part of another, so the
\* substring tests and splits of the source are tests and splits on lexemes.

\* pat in s
Contains(s, pat) == \E i \in 0..Len(s) : Occurs(s, pat, i)

\* s.split(sep), for a separator of one lexeme
RECURSIVE Split(_, _)
Split(s, sep) ==
  LET cuts == { i \in 1..Len(s) : s[i] = sep }
  IN  IF cuts = {} THEN << s >>
      ELSE LET i == CHOOSE c \in cuts : \A d \in cuts : c <= d
           IN  << SubSeq(s, 1, i - 1) >> \o Split(SubSeq(s, i + 1, Len(s)), sep)

\* "Character:" in message
HasCharacterTag(msg) == Contains(msg, << "Character", ":" >>)

\* parts = message.split("->")
ArrowParts(msg) == Split(msg, "->")

\* the head of the callback, lines 312-316: what the line is taken for
\*   Unrecognized      no "Character:", or not exactly two parts around "->"
\*   IndexError        parts[0].split(":")[1] does not exist (caught at line 372)
\*   CharacterRendered char and pattern_info were extracted
ReadHead(msg) ==
  IF ~HasCharacterTag(msg) THEN [kind |-> "Unrecognized"]
  ELSE IF Len(ArrowParts(msg)) # 2 THEN [kind |-> "Unrecognized"]
  ELSE LET head == Split(ArrowParts(msg)[1], ":")
       IN  IF Len(head) < 2 THEN [kind |-> "IndexError"]
           ELSE [kind |-> "CharacterRendered",
                 char |-> Strip(head[2]),
                 pattern_info |-> Strip(ArrowParts(msg)[2])]

BinaryDigits == { "0", "1" }
DecimalDigits == { "0", "1", "9" }
ServoTags == { "Servo A (0)", "Servo B (0)" }

\* the longest run of lexemes of `set` that starts at offset i + 1 of s
RECURSIVE Run(_, _, _)
Run(s, i, set) ==
  IF i < Len(s) /\ s[i + 1] \in set THEN << s[i + 1] >> \o Run(s, i + 1, set) ELSE << >>

\* re.search(r'Pattern:\s*([01]+)', s).group(1), << >> when nothing matches
PatternMatchAt(s, i) ==
  IF i + 2 <= Len(s) /\ s[i + 1] = "Pattern" /\ s[i + 2] = ":"
  THEN Run(s, i + 2 + Len(Run(s, i + 2, { " " })), BinaryDigits)
  ELSE << >>

PatternSearch(s) ==
  LET hits == { i \in 0..Len(s) : PatternMatchAt(s, i) # << >> }
  IN  IF hits = {} THEN << >>
      ELSE PatternMatchAt(s, CHOOSE i \in hits : \A j \in hits : i <= j)

\* one match of r'Servo ([AB]) \((?:\d+)\): (\d+)µs' at offset i: its digits,
\* << >> when there is none
ServoMatchAt(s, i) ==
  IF /\ i + 3 <= Len(s)
     /\ s[i + 1] \in ServoTags /\ s[i + 2] = ":" /\ s[i + 3] = " "
     /\ Run(s, i + 3, DecimalDigits) # << >>
     /\ i + 3 + Len(Run(s, i + 3, DecimalDigits)) < Len(s)
     /\ s[i + 4 + Len(Run(s, i + 3, DecimalDigits))] = "us"
  THEN Run(s, i + 3, DecimalDigits)
  ELSE << >>

\* int(pulse)
DigitValue(d) == IF d = "0" THEN 0 ELSE IF d = "1" THEN 1 ELSE 9

RECURSIVE IntOf(_)
IntOf(ds) == IF ds = << >> THEN 0 ELSE 10 * IntOf(SubSeq(ds, 1, Len(ds) - 1)) + DigitValue(ds[Len(ds)])

\* re.findall(...) from offset i on, then "pulses[servo] = int(pulse)" for each
\* match in turn: the last reading of a servo stays; -1 stands for no entry
RECURSIVE PulseOf(_, _, _, _)
PulseOf(s, i, tag, sofar) ==
  IF i >= Len(s) THEN sofar
  ELSE IF ServoMatchAt(s, i) = << >> THEN PulseOf(s, i + 1, tag, sofar)
  ELSE PulseOf(s, i + 4 + Len(ServoMatchAt(s, i)), tag,
               IF s[i + 1] = tag THEN IntOf(ServoMatchAt(s, i)) ELSE sofar)

\* binary_match.group(1).zfill(6)
RECURSIVE ZFill(_, _)
ZFill(bits, width) == IF Len(bits) >= width THEN bits ELSE ZFill(<< "0" >> \o bits, width)

PatternWidth == 6

\* lines 331-352: what is read from pattern_info; the servo readings are looked
\* for only under 'if "Pattern:" in pattern_info'
ReadInfo(info) ==
  IF ~Contains(info, << "Pattern", ":" >>)
  THEN [pattern |-> << >>, forwarded |-> << >>, pulseA |-> -1, pulseB |-> -1]
  ELSE [pattern |-> PatternSearch(info),
        forwarded |-> IF PatternSearch(info) = << >> THEN << >>
                      ELSE ZFill(PatternSearch(info), PatternWidth),
        pulseA |-> PulseOf(info, 0, "Servo A (0)", -1),
        pulseB |-> PulseOf(info, 0, "Servo B (0)", -1)]

\* the callback on a line whose character is found in the group in flight
ReadLine(msg) ==
  IF ReadHead(msg).kind = "CharacterRendered"
  THEN ReadHead(msg) @@ ReadInfo(ReadHead(msg).pattern_info)
  ELSE ReadHead(msg)

(* ----------------------- the lines the device sends --------------------- *)
\* "Character: a -> Pattern: 100000 Servo A (0): 900us Servo B (0): 1900us",
\* with each part varied: text before the tag, the character text, the
\* pattern token, each servo reading present or not, in either order
BitTokens == UNION { [1..n -> BinaryDigits] : n \in 0..MaxBits }
PulseTokens == { << >>, << "9", "0", "0" >>, << "1", "9", "0", "0" >> }
ReportFields ==
  { f \in [pre : { << >>, << "T", ":", " " >> },
           chr : { << " ", "a", " " >>, << "a" >>, << " ", "a", "b", " " >> },
           hasPat : BOOLEAN, bits : BitTokens,
           a : PulseTokens, b : PulseTokens, aFirst : BOOLEAN] :
      /\ f.hasPat \/ f.bits = << >>
      /\ (f.a = << >> \/ f.b = << >>) => f.aFirst
      /\ f.pre # << >> => (f.bits \in { << >>, << "1" >> } /\ f.aFirst) }

PatternField(f) == IF f.hasPat THEN << "Pattern", ":", " " >> \o f.bits \o << " " >> ELSE << >>

ServoField(tag, pulse) ==
  IF pulse = << >> THEN << >> ELSE << tag, ":", " " >> \o pulse \o << "us", " " >>

ReportLine(f) ==
  f.pre \o << "Character", ":" >> \o f.chr \o << "->", " " >> \o PatternField(f)
    \o (IF f.aFirst
        THEN ServoField("Servo A (0)", f.a) \o ServoField("Servo B (0)", f.b)
        ELSE ServoField("Servo B (0)", f.b) \o ServoField("Servo A (0)", f.a))

\* the lines of the recognition runs
RecognitionLexemes == { "Character", ":", "->", "a", " " }
RecognitionLines == UNION { [1..n -> RecognitionLexemes] : n \in 0..MaxMsgLen }

(* ------------------------- braille_patterns.py -------------------------- *)
\* Braille patterns for lowercase letters a-z
BRAILLE_PATTERNS ==
     ("a" :> << "1", "0", "0", "0", "0", "0" >>)
  @@ ("b" :> << "1", "0", "1", "0", "0", "0" >>)
  @@ ("c" :> << "1", "1", "0", "0", "0", "0" >>)
  @@ ("d" :> << "1", "1", "0", "1", "0", "0" >>)
  @@ ("e" :> << "1", "0", "0", "1", "0", "0" >>)
  @@ ("f" :> << "1", "1", "1", "0", "0", "0" >>)
  @@ ("g" :> << "1", "1", "1", "1", "0", "0" >>)
  @@ ("h" :> << "1", "0", "1", "1", "0", "0" >>)
  @@ ("i" :> << "0", "1", "1", "0", "0", "0" >>)
  @@ ("j" :> << "0", "1", "1", "1", "0", "0" >>)
  @@ ("k" :> << "1", "0", "0", "0", "1", "0" >>)
  @@ ("l" :> << "1", "0", "1", "0", "1", "0" >>)
  @@ ("m" :> << "1", "1", "0", "0", "1", "0" >>)
  @@ ("n" :> << "1", "1", "0", "1", "1", "0" >>)
  @@ ("o" :> << "1", "0", "0", "1", "1", "0" >>)
  @@ ("p" :> << "1", "1", "1", "0", "1", "0" >>)
  @@ ("q" :> << "1", "1", "1", "1", "1", "0" >>)
  @@ ("r" :> << "1", "0", "1", "1", "1", "0" >>)
  @@ ("s" :> << "0", "1", "1", "0", "1", "0" >>)
  @@ ("t" :> << "0", "1", "1", "1", "1", "0" >>)
  @@ ("u" :> << "1", "0", "0", "0", "1", "1" >>)
  @@ ("v" :> << "1", "0", "1", "0", "1", "1" >>)
  @@ ("w" :> << "0", "1", "1", "1", "0", "1" >>)
  @@ ("x" :> << "1", "1", "0", "0", "1", "1" >>)
  @@ ("y" :> << "1", "1", "0", "1", "1", "1" >>)
  @@ ("z" :> << "1", "0", "0", "1", "1", "1" >>)

\* Braille patterns for numbers 0-9
BRAILLE_NUMBERS ==
     ("0" :> << "0", "1", "0", "1", "1", "0" >>)
  @@ ("1" :> << "1", "0", "0", "0", "0", "0" >>)
  @@ ("2" :> << "1", "0", "1", "0", "0", "0" >>)
  @@ ("3" :> << "1", "1", "0", "0", "0", "0" >>)
  @@ ("4" :> << "1", "1", "0", "1", "0", "0" >>)
  @@ ("5" :> << "1", "0", "0", "1", "0", "0" >>)
  @@ ("6" :> << "1", "1", "1", "0", "0", "0" >>)
  @@ ("7" :> << "1", "1", "1", "1", "0", "0" >>)
  @@ ("8" :> << "1", "0", "1", "1", "0", "0" >>)
  @@ ("9" :> << "0", "1", "1", "0", "0", "0" >>)

\* other Braille patterns: space, period, comma, question mark, exclamation mark
BRAILLE_SPECIAL ==
     (" " :> << "0", "0", "0", "0", "0", "0" >>)
  @@ ("." :> << "0", "1", "0", "0", "1", "1" >>)
  @@ ("," :> << "0", "1", "0", "0", "0", "0" >>)
  @@ ("?" :> << "0", "1", "1", "0", "0", "1" >>)
  @@ ("!" :> << "0", "1", "1", "0", "1", "0" >>)

\* pattern to angle mapping, indexed from 000 to 111
PATTERN_TO_ANGLE == << 66, 84, 37, 128, 51, 26, 22, 0 >>

UpperCase == << "A", "B", "C", "D", "E", "F", "G", "H", "I", "J", "K", "L", "M", "N", "O", "P", "Q", "R", "S", "T", "U", "V", "W", "X", "Y", "Z" >>
LowerCase == << "a", "b", "c", "d", "e", "f", "g", "h", "i", "j", "k", "l", "m", "n", "o", "p", "q", "r", "s", "t", "u", "v", "w", "x", "y", "z" >>

\* a lookup that leaves the case of the character as it is
LowerSkipped(char) == char

\* str.lower() of a single character
Lower(char) ==
  IF \E i \in 1..Len(UpperCase) : UpperCase[i] = char
  THEN LowerCase[CHOOSE i \in 1..Len(UpperCase) : UpperCase[i] = char]
  ELSE char

Returned(v) == [kind |-> "returned", value |-> v]
Raised(e) == [kind |-> "raised", error |-> e]

get_pattern_for_char(char) ==
  LET c == Lower(char)
  IN  IF c \in DOMAIN BRAILLE_PATTERNS THEN BRAILLE_PATTERNS[c]
      ELSE IF c \in DOMAIN BRAILLE_NUMBERS THEN BRAILLE_NUMBERS[c]
      ELSE IF c \in DOMAIN BRAILLE_SPECIAL THEN BRAILLE_SPECIAL[c]
      ELSE BRAILLE_SPECIAL[" "]

\* int(pattern, 2) of a string of binary digits, most significant digit first
RECURSIVE Base2(_)
Base2(pattern) ==
  IF pattern = << >> THEN 0
  ELSE 2 * Base2(SubSeq(pattern, 1, Len(pattern) - 1))
         + (IF pattern[Len(pattern)] = "1" THEN 1 ELSE 0)

\* int(pattern, 2) raises ValueError for an empty string and for a character
\* that is no binary digit
IntBase2Fails(pattern) ==
  pattern = << >> \/ \E k \in 1..Len(pattern) : pattern[k] \notin BinaryDigits

\* the low 3 bits taken for servo A as well
ServoABitsLow(pattern_int) == pattern_int % 8

ServoABits(pattern_int) == (pattern_int \div 8) % 8
ServoBBits(pattern_int) == pattern_int % 8

pattern_to_angles(pattern) ==
  IF IntBase2Fails(pattern) THEN Raised("ValueError")
  ELSE LET pattern_int == Base2(pattern)
       IN  Returned(<< PATTERN_TO_ANGLE[ServoABits(pattern_int) + 1],
                       PATTERN_TO_ANGLE[ServoBBits(pattern_int) + 1] >>)

validate_pattern(pattern) ==
  IF pattern = << >> \/ Len(pattern) # PatternWidth THEN FALSE
  ELSE \A k \in 1..Len(pattern) : pattern[k] \in BinaryDigits

\* update_pattern of the single-cell window: a pattern that fails the test is
\* logged and not drawn
update_pattern(pattern) ==
  IF pattern = << >> \/ Len(pattern) # PatternWidth
       \/ ~(\A k \in 1..Len(pattern) : pattern[k] \in BinaryDigits)
  THEN Returned("Invalid pattern format")
  ELSE Returned("drawn")

\* the characters and the pattern strings the functions are called with
Unlisted == { "#", "-", "" }
Characters ==
  { UpperCase[i] : i \in 1..Len(UpperCase) } \cup DOMAIN BRAILLE_PATTERNS
    \cup DOMAIN BRAILLE_NUMBERS \cup DOMAIN BRAILLE_SPECIAL \cup Unlisted
PatternChars == BinaryDigits \cup { "2" }
PatternStrings == UNION { [1..n -> PatternChars] : n \in 0..MaxBits }

(* --------------------------- _pulse_to_angle ---------------------------- *)
MIN_PULSE == 500
MAX_PULSE == 2500
MIN_ANGLE == 0
MAX_ANGLE == 180

\* only the lower bound applied: max(MIN_PULSE, pulse_width)
BoundedBelow(pulse_width) == IF pulse_width < MIN_PULSE THEN MIN_PULSE ELSE pulse_width

\* max(MIN_PULSE, min(pulse_width, MAX_PULSE))
Bounded(pulse_width) ==
  IF pulse_width > MAX_PULSE THEN MAX_PULSE
  ELSE IF pulse_width < MIN_PULSE THEN MIN_PULSE
  ELSE pulse_width

\* 2^k modulo m
RECURSIVE PowMod(_, _)
PowMod(k, m) == IF k = 0 THEN 1 % m ELSE (2 * PowMod(k - 1, m)) % m

\* The quotient num / den of two ints is the double nearest to it. For
\* den <= num * 32 < den * 2^13 its binary exponent is the e below, its last
\* mantissa bit weighs 2^(e - 52), and the double lies below the quotient when
\* the remainder of num * 2^(52 - e) by den is under den / 2, above it when over.
BinaryExponent(num, den) ==
  CHOOSE e \in -5..7 : den * 2^(e + 5) <= num * 32 /\ num * 32 < den * 2^(e + 6)
DoubleIsExact(num, den) == \E k \in 0..11 : (num * 2^k) % den = 0
DoubleIsBelow(num, den) ==
  ((num % den) * PowMod(52 - BinaryExponent(num, den), den)) % den < den \div 2

\* round(num / den, 1) in tenths: the tenth nearest to the double; a double that
\* lies exactly between two tenths goes to the even one
RoundTenths(num, den) ==
  LET q == (10 * num) \div den
      r == (10 * num) % den
  IN  IF 2 * r < den THEN q
      ELSE IF 2 * r > den THEN q + 1
      ELSE IF DoubleIsExact(num, den) THEN (IF q % 2 = 0 THEN q ELSE q + 1)
      ELSE IF DoubleIsBelow(num, den) THEN q
      ELSE q + 1

\* _pulse_to_angle, the angle in tenths of a degree
pulse_to_angle(pulse_width) ==
  LET bounded == Bounded(pulse_width)
  IN  RoundTenths((bounded - MIN_PULSE) * (MAX_ANGLE - MIN_ANGLE), MAX_PULSE - MIN_PULSE)

\* the pulse widths the conversion is called with
PulseLow == 400
PulseHigh == 2600
PulseWidths == PulseLow..PulseHigh

\* the calls a run may start with
Calls ==
  { [fn |-> "process_serial_message", arg |-> m] : m \in RecognitionLines }
    \cup { [fn |-> "process_serial_message", arg |-> ReportLine(f), sent |-> f] :
             f \in ReportFields }
    \cup { [fn |-> "get_pattern_for_char", arg |-> c] : c \in Characters }
    \cup { [fn |-> f, arg |-> p] :
             f \in { "pattern_to_angles", "validate_pattern", "update_pattern" },
             p \in PatternStrings }
    \cup { [fn |-> "_pulse_to_angle", arg |-> w] : w \in PulseWidths }

FunctionInit == MachineInit({}) /\ call \in Calls /\ result = NoResult

machineVars == << connection, openH, is_connected, stop_thread, read_thread, rpc, held,
                  rxbuf, devq, current_text, current_text_groups, current_group_index,
                  char_delay_var, char_count_var, char_displays, timers, mpc, closed,
                  nextH, sid, subG, textLog, done, lastSend, lastErr, clean, discarded,
                  ioErr, discRuns, torn, reads, lastRead, matched, subDelay, empties,
                  obs >>

\* the callback runs on the line
ProcessSerialMessage ==
  /\ call.fn = "process_serial_message" /\ result = NoResult
  /\ result' = ReadLine(call.arg)
  /\ UNCHANGED << machineVars, call >>

GetPatternForChar ==
  /\ call.fn = "get_pattern_for_char" /\ result = NoResult
  /\ result' = Returned(get_pattern_for_char(call.arg))
  /\ UNCHANGED << machineVars, call >>

PatternToAngles ==
  /\ call.fn = "pattern_to_angles" /\ result = NoResult
  /\ result' = pattern_to_angles(call.arg)
  /\ UNCHANGED << machineVars, call >>

ValidatePattern ==
  /\ call.fn = "validate_pattern" /\ result = NoResult
  /\ result' = Returned(validate_pattern(call.arg))
  /\ UNCHANGED << machineVars, call >>

UpdatePattern ==
  /\ call.fn = "update_pattern" /\ result = NoResult
  /\ result' = update_pattern(call.arg)
  /\ UNCHANGED << machineVars, call >>

PulseToAngle ==
  /\ call.fn = "_pulse_to_angle" /\ result = NoResult
  /\ result' = Returned(pulse_to_angle(call.arg))
  /\ UNCHANGED << machineVars, call >>

(* ---------------------------- specification ---------------------------- *)
\* _toggle_connection and _on_closing, over at most `connects` handles
ConnNext(connects) ==
  \/ ConnectInvalidPort
  \/ ConnectFailure
  \/ ConnectOpen(connects)
  \/ ConnectFinish
  \/ ToggleDisconnect
  \/ OnClosing
  \/ DisconnectFinish

\* the reader threads
ReaderNext ==
  \/ \E t \in Threads : ReaderLoopExit(t)
  \/ \E t \in Threads : ReaderIOError(t)
  \/ \E t \in Threads : ReaderExit(t)
  \/ \E t \in Threads : ReaderRead(t)
  \/ \E t \in Threads : ReaderAdvance(t)

\* the dual servo check box
ConfigNext ==
  \/ DualServoToggle
  \/ \E wok \in BOOLEAN : SendConfiguration(wok)

\* the send button, with texts of at most maxlen characters; woks: whether the
\* port may refuse a write
SubmitNext(maxlen, woks) ==
  \/ \E raw \in RawTexts(maxlen) : SubmitEmpty(raw)
  \/ \E raw \in RawTexts(maxlen), g \in GroupSizes, wok \in woks : Submit(raw, g, wok)

\* the scheduled sends and the clock
TimerNext(woks) ==
  \/ Tick
  \/ \E wok \in woks : TimerFire(wok)
  \/ \E d \in Delays : EditCharDelay(d)

\* the pipeline over one connection, the device reporting what it was sent
Next ==
  \/ ConnNext(PipeConnects)
  \/ ReaderNext
  \/ SubmitNext(MaxLen, {TRUE})
  \/ TimerNext({TRUE})
  \/ DeviceReport

Spec == Init({"sess"}) /\ [][Next]_vars

\* short texts over one connection, with any telemetry
NextN ==
  \/ ConnNext(PipeConnects)
  \/ ReaderNext
  \/ SubmitNext(ShortLen, {TRUE})
  \/ \E d \in Delays : EditCharDelay(d)
  \/ DeviceReport
  \/ \E line \in Lines : DeviceNoise(line)

SpecN == Init({"sess", "disp"}) /\ [][NextN]_vars

\* the Transport over several connections, driven with one-character texts
NextT ==
  \/ ConnNext(MaxConnects)
  \/ \E h \in Threads : Finalize(h)
  \/ ReaderNext
  \/ ConfigNext
  \/ SubmitNext(UnitLen, BOOLEAN)
  \/ DeviceReport

SpecT == Init({"send", "disc"}) /\ [][NextT]_vars

\* the pipeline over one connection that stays up, on a port that may refuse a
\* write
NextE ==
  \/ ConnectOpen(PipeConnects)
  \/ ConnectFinish
  \/ \E t \in Threads : ReaderRead(t)
  \/ \E t \in Threads : ReaderAdvance(t)
  \/ SubmitNext(MaxLen, BOOLEAN)
  \/ Tick
  \/ \E wok \in BOOLEAN : TimerFire(wok)
  \/ DeviceReport

SpecE == Init({"sess", "send"}) /\ [][NextE]_vars

\* the attribution of events to short texts over one connection, with any
\* telemetry and with bytes that are no text
NextA ==
  \/ ConnectOpen(PipeConnects)
  \/ ConnectFinish
  \/ \E t \in Threads : ReaderRead(t)
  \/ \E t \in Threads : ReaderDecodeError(t)
  \/ \E t \in Threads : ReaderIOError(t)
  \/ \E t \in Threads : ReaderExit(t)
  \/ \E t \in Threads : ReaderAdvance(t)
  \/ SubmitNext(ShortLen, {TRUE})
  \/ DeviceReport
  \/ \E line \in Lines : DeviceNoise(line)
  \/ DeviceGarbage

SpecA == Init({"sess", "attr"}) /\ [][NextA]_vars

\* the pipeline over one connection that stays up, the delay entry being edited
NextC ==
  \/ ConnectOpen(PipeConnects)
  \/ ConnectFinish
  \/ \E t \in Threads : ReaderRead(t)
  \/ \E t \in Threads : ReaderAdvance(t)
  \/ SubmitNext(MaxLen, {TRUE})
  \/ TimerNext({TRUE})
  \/ DeviceReport

SpecC == Init({"sess", "cfg"}) /\ [][NextC]_vars

\* connects and disconnects over one handle, the reader taking each line in three
\* steps
NextD ==
  \/ ConnNext(PipeConnects)
  \/ \E t \in Threads : ReaderLoopExit(t)
  \/ \E t \in Threads : ReaderExit(t)
  \/ \E t \in Threads : ReaderEnter(t)
  \/ \E t \in Threads : ReaderReadline(t)
  \/ \E t \in Threads : ReaderCallback(t)
  \/ \E t \in Threads : ReaderAdvance(t)
  \/ SubmitNext(UnitLen, {TRUE})
  \/ DeviceReport

SpecD == Init({"disc", "disp"}) /\ [][NextD]_vars

\* one long text over one connection that stays up, with any telemetry, the
\* delay entry being edited
NextO ==
  \/ ConnectOpen(PipeConnects)
  \/ ConnectFinish
  \/ \E t \in Threads : ReaderRead(t)
  \/ \E t \in Threads : ReaderAdvance(t)
  \/ \E g \in GroupSizes : Submit(Alternating(LongLen), g, TRUE)
  \/ TimerNext({TRUE})
  \/ DeviceReport
  \/ \E line \in Lines : DeviceNoise(line)

SpecO == Init({"sess"}) /\ [][NextO]_vars

\* the functions that keep no state, each called once on an argument
NextF ==
  \/ ProcessSerialMessage
  \/ GetPatternForChar
  \/ PatternToAngles
  \/ ValidatePattern
  \/ UpdatePattern
  \/ PulseToAngle

SpecF == FunctionInit /\ [][NextF]_vars

(* ------------------------------ properties ----------------------------- *)
RECURSIVE Flatten(_)
Flatten(ss) == IF ss = << >> THEN << >> ELSE Head(ss) \o Flatten(Tail(ss))

\* the texts of the TEXT commands written since the last submit began, in order
Written == [ i \in 1..Len(textLog) |-> textLog[i].text ]

\* nothing is in flight: no line on the link, no report owed by the device, no
\* send scheduled, no callback running
Quiescent ==
  /\ mpc = "idle"
  /\ rxbuf = << >> /\ devq = << >>
  /\ timers = << >>
  /\ \A t \in Threads : rpc[t] \in {"loop", "dead"}

\* the group index has moved past the last group
SessionComplete == current_group_index = Len(current_text_groups)

\* ceil(L / g)
CeilDiv(L, g) == (L + g - 1) \div g

\* C1: the TEXT command of a group after the first is written only after an event
\* equal to the last character of the group before it, in the same session, was
\* processed, and no sooner than char_delay after it was scheduled.
C1_NextGroupAfterEventAndDelay ==
  \A i \in 1..Len(textLog) :
    textLog[i].src = "timer" =>
      /\ << textLog[i].sid, textLog[i].gidx - 1 >> \in done
      /\ textLog[i].waited >= textLog[i].delay

\* a scheduled send wrote a group whose predecessor saw no event in its session
C1_Witness ==
  \E i \in 1..Len(textLog) :
    /\ textLog[i].src = "timer"
    /\ << textLog[i].sid, textLog[i].gidx - 1 >> \notin done

\* C2: for a text no longer than the group size, once the device has reported
\* every character in order and nothing is in flight, exactly one TEXT command
\* with the whole text was written and the session is complete.
C2_SingleGroupCompletes ==
  (clean /\ Quiescent /\ Len(current_text) <= subG) =>
      /\ Written = << current_text >>
      /\ SessionComplete

\* "aa" with group size 2: both reports were handled and the group is still open
C2_Witness ==
  /\ sid = 1 /\ clean /\ Quiescent
  /\ current_text = << "a", "a" >> /\ subG = 2
  /\ Written = << current_text >>
  /\ current_group_index = 0

\* C3: with the connection open and the device reporting each character of each
\* command in order, a run that has come to rest has written every group of the
\* text, in text order, and the session is complete.
C3_Progress ==
  (clean /\ Quiescent) =>
      /\ Written = Chunk(current_text, subG)
      /\ SessionComplete

\* "ab" with group size 1: the report for "a" was handled, "b" was never written
C3_Witness ==
  /\ sid = 1 /\ clean /\ Quiescent
  /\ current_text = << "a", "b" >> /\ subG = 1
  /\ Written = << << "a" >> >>

\* C4: the group list of a submitted text of length L with group size g has
\* ceil(L/g) groups, none empty, all but the last of length g, and their
\* concatenation is the text.
C4_Chunking ==
  sid > 0 =>
      /\ Len(current_text_groups) = CeilDiv(Len(current_text), subG)
      /\ \A k \in 1..Len(current_text_groups) :
           /\ current_text_groups[k] # << >>
           /\ k < Len(current_text_groups) => Len(current_text_groups[k]) = subG
      /\ Flatten(current_text_groups) = current_text

\* "ab" with group size 1: no group list was built
C4_Witness ==
  /\ sid = 1 /\ subG = 1
  /\ current_text = << "a", "b" >>
  /\ current_text_groups = << >>

\* C5: when submit returns, the groups are the chunks of the text just submitted
\* and the group index is 0, whatever the state before.
C5_FreshSession ==
  [][ sid' = sid + 1 =>
        /\ current_text_groups' = Chunk(current_text', subG')
        /\ current_group_index' = 0 ]_vars

\* a second submit, with group size 1, has just returned and nothing was read since:
\* the groups and the index are those the first session had reached
C5_Witness ==
  /\ sid = 2 /\ subG = 1
  /\ Len(textLog) = 1 /\ devq = textLog[1].text /\ rxbuf = << >>
  /\ \A t \in Threads : ~InIteration(t)
  /\ current_group_index = 1
  /\ current_text_groups # Chunk(current_text, subG)

\* C6: no TEXT command is written for a group of a session that a disconnect or
\* a later submit has discarded.
C6_NoSendAfterCancel ==
  \A i \in 1..Len(textLog) : ~textLog[i].stale

\* a send scheduled by the first session was written after the second submit
C6_Witness ==
  \E i \in 1..Len(textLog) :
    /\ textLog[i].stale /\ textLog[i].src = "timer"
    /\ textLog[i].sid = 1 /\ sid = 2

\* C7: at most one handle is open and at most one reader thread is alive.
C7_OneConnectionOneReader ==
  /\ Cardinality(openH) <= 1
  /\ Cardinality({ t \in Threads : rpc[t] # "dead" }) <= 1

\* the reader of the first connection is still running beside the second's
C7_Witness == \A t \in Threads : t <= 2 => rpc[t] # "dead"

\* C8: disconnect never closes the handle while a reader thread is inside an
\* iteration of its loop.
C8_NoTeardownUnderRead == ~torn

\* the handle was closed and the reader is still inside the callback
C8_Witness == torn /\ ~HandleOpen /\ \E t \in Threads : InIteration(t)

\* C9: a disconnect that has returned, whether the first since the connect or a
\* repeated one, raised nothing and leaves the Transport not connected, the stop
\* signal set and the handle, if there is one, closed.
C9_DisconnectIdempotent ==
  (discRuns >= 1 /\ mpc = "idle") =>
      /\ lastErr = "none"
      /\ ~is_connected
      /\ stop_thread
      /\ ~HandleOpen

\* a second disconnect in a row has returned
C9_Witness == discRuns = 2 /\ mpc = "idle" /\ nextH > 0

\* C10: a send made while not connected raised NotConnected and wrote nothing,
\* and from a reader's end on an I/O error until the next connect the Transport
\* is not connected.
C10_NotConnectedSendFails ==
  /\ ~lastSend.conn => (lastSend.err = "NotConnected" /\ ~lastSend.wrote)
  /\ ioErr => ~is_connected

\* a TEXT send was refused after the reader ended on an I/O error
C10_Witness ==
  /\ ioErr
  /\ lastSend.kind = "TEXT" /\ ~lastSend.conn /\ lastSend.err = "NotConnected"

\* C11: no command, Text or Config, is written to the link unless the input and
\* output buffers were cleared in the same call just before the write.
C11_ClearBeforeWrite == lastSend.wrote => lastSend.cleared

\* a CONFIG command was written and the buffers were not cleared before it
C11_Witness == lastSend.kind = "CONFIG" /\ lastSend.wrote /\ ~lastSend.cleared

\* the reader threads that are inside the message callback
InCallback == { t \in Threads : InIteration(t) }

\* C12: lines are handed to the controller one at a time: the callback for a
\* line is not started while the callback for an earlier line is still running.
C12_OneCallbackAtATime == Cardinality(InCallback) <= 1

\* the reader of the first connection is still in the callback for its line
\* when the reader of the second connection starts the callback for a later one
C12_Witness == InCallback = {1, 2} /\ connection = 2

\* the token occurs somewhere in the group
OccursIn(grp, tok) == \E i \in 0..Len(grp) : Occurs(grp, tok, i)

\* this step hands to the callback a character report whose character does not
\* occur in the group in flight
DroppedEvent ==
  /\ reads'.n # reads.n
  /\ Head(rxbuf).isChar
  /\ GroupInFlight
  /\ ~OccursIn(CurrentGroup, Head(rxbuf).tok)

\* C13: a character report whose character does not occur in the group in flight
\* changes neither the group list nor the group index, updates no display, and
\* writes or schedules no TEXT command.
C13_UnmatchedEventDropped ==
  [][ DroppedEvent =>
        /\ current_text_groups' = current_text_groups
        /\ current_group_index' = current_group_index
        /\ char_displays' = char_displays
        /\ timers' = timers
        /\ textLog' = textLog
        /\ \A t \in Threads : InIteration(t)' => InIteration(t) ]_vars

\* a report for "b" was handled while the group "a" was in flight, and the first
\* display still shows no letter
C13_Witness ==
  /\ reads.miss /\ rxbuf = << >>
  /\ current_text_groups = << << "a" >> >> /\ current_group_index = 0
  /\ sid = 1 /\ ~clean /\ devq = << "a" >> /\ LinkUp
  /\ char_displays[1] = Blank

\* C14: a line is taken for a character report if and only if it contains
\* "Character:" and the separator "->".
C14_RecognizedIffTagAndArrow ==
  (call.fn = "process_serial_message" /\ result # NoResult) =>
      (result.kind = "CharacterRendered"
         <=> (HasCharacterTag(call.arg) /\ Contains(call.arg, << "->" >>)))

\* a line with "Character:" and two separators was not taken for a report
C14_Witness ==
  /\ call.fn = "process_serial_message"
  /\ call.arg = << "Character", ":", "a", "->", "->" >>
  /\ result.kind = "Unrecognized"

\* the call was made with a line built from the fields call.sent
OfReport == call.fn = "process_serial_message" /\ "sent" \in DOMAIN call /\ result # NoResult

\* C15: from a character report the character is the trimmed text between the
\* colon of "Character:" and "->", the pattern is the run of binary digits after
\* "Pattern:", and each servo pulse is the digit run of its reading, whether or
\* not the other reading is there and in either order.
C15_ReportFieldsExtracted ==
  OfReport =>
      /\ result.kind = "CharacterRendered"
      /\ result.char = Strip(call.sent.chr)
      /\ call.sent.hasPat => result.pattern = call.sent.bits
      /\ result.pulseA = (IF call.sent.a = << >> THEN -1 ELSE IntOf(call.sent.a))
      /\ result.pulseB = (IF call.sent.b = << >> THEN -1 ELSE IntOf(call.sent.b))

\* "T: Character: a -> Pattern: 1 ..." was read with the character "Character"
C15_Witness ==
  /\ OfReport
  /\ call.sent.pre = << "T", ":", " " >> /\ call.sent.chr = << " ", "a", " " >>
  /\ result.kind = "CharacterRendered" /\ result.char = << "Character" >>

\* the first n digits of a token
Truncated(bits, n) == SubSeq(bits, 1, n)

\* C16: the pattern handed to the display for a token of one or more binary
\* digits has exactly 6 binary digits: a shorter token padded with zeros on the
\* left, a longer one cut to 6.
C16_ForwardedPatternSixBits ==
  (OfReport /\ result.kind = "CharacterRendered" /\ result.pattern # << >>) =>
      /\ Len(result.forwarded) = PatternWidth
      /\ \A k \in 1..Len(result.forwarded) : result.forwarded[k] \in BinaryDigits
      /\ result.forwarded =
           IF Len(result.pattern) <= PatternWidth
           THEN ZFill(result.pattern, PatternWidth)
           ELSE Truncated(result.pattern, PatternWidth)

\* a token of 7 digits was handed on with all 7
C16_Witness ==
  /\ OfReport /\ result.kind = "CharacterRendered"
  /\ result.pattern = << "1", "0", "0", "0", "0", "0", "1" >>
  /\ result.forwarded = result.pattern

\* a string of exactly 6 characters, each '0' or '1'
WellFormed(p) == Len(p) = 6 /\ \A k \in 1..Len(p) : p[k] \in { "0", "1" }

LetterOf(c) == c \in DOMAIN BRAILLE_PATTERNS
IsUpper(c) == \E i \in 1..Len(UpperCase) : UpperCase[i] = c
OfPatternFor == call.fn = "get_pattern_for_char" /\ result # NoResult

\* C17: get_pattern_for_char returns for every character, without an error: the
\* entry of the lowercased character in the letter table, else in the digit
\* table, else in the punctuation table, else the space pattern 000000; an
\* upper-case letter gets the pattern of its lower-case letter, and the result is
\* a well-formed 6-bit pattern.
C17_PatternForTotal ==
  OfPatternFor =>
      /\ result.kind = "returned"
      /\ WellFormed(result.value)
      /\ \A i \in 1..Len(UpperCase) :
            call.arg \in { UpperCase[i], LowerCase[i] } =>
                result.value = BRAILLE_PATTERNS[LowerCase[i]]
      /\ (~IsUpper(call.arg) /\ ~LetterOf(call.arg)) =>
            result.value =
              IF call.arg \in DOMAIN BRAILLE_NUMBERS THEN BRAILLE_NUMBERS[call.arg]
              ELSE IF call.arg \in DOMAIN BRAILLE_SPECIAL THEN BRAILLE_SPECIAL[call.arg]
              ELSE << "0", "0", "0", "0", "0", "0" >>

\* the pattern of 'Z' was returned, the one listed for 'z'
C17_Witness ==
  /\ OfPatternFor /\ call.arg = "Z"
  /\ result = Returned(<< "1", "0", "0", "1", "1", "1" >>)

\* the unsigned integer a 6-bit pattern spells, first digit most significant
Unsigned(p) ==
  32 * (IF p[1] = "1" THEN 1 ELSE 0) + 16 * (IF p[2] = "1" THEN 1 ELSE 0)
    + 8 * (IF p[3] = "1" THEN 1 ELSE 0) + 4 * (IF p[4] = "1" THEN 1 ELSE 0)
    + 2 * (IF p[5] = "1" THEN 1 ELSE 0) + (IF p[6] = "1" THEN 1 ELSE 0)

CalibrationTable == << 66, 84, 37, 128, 51, 26, 22, 0 >>
OfToAngles == call.fn = "pattern_to_angles" /\ result # NoResult

\* C18: for a 6-bit pattern p, pattern_to_angles returns the table entry of
\* p div 8 for servo A and the table entry of p mod 8 for servo B, each one of
\* the 8 table values.
C18_AnglesFromHalves ==
  (OfToAngles /\ WellFormed(call.arg)) =>
      /\ result.kind = "returned"
      /\ result.value[1] = CalibrationTable[(Unsigned(call.arg) \div 8) + 1]
      /\ result.value[2] = CalibrationTable[(Unsigned(call.arg) % 8) + 1]
      /\ \A k \in 1..2 : result.value[k] \in { 66, 84, 37, 128, 51, 26, 22, 0 }

\* 011101 is 29: 3 selects 128 for servo A, 5 selects 26 for servo B
C18_Witness ==
  /\ OfToAngles /\ call.arg = << "0", "1", "1", "1", "0", "1" >>
  /\ result = Returned(<< 128, 26 >>)

OfPatternCall(fn) == call.fn = fn /\ result # NoResult

\* C19: a pattern string passes validation exactly when it has 6 characters,
\* each '0' or '1'; a string that does not is turned away with an error and
\* pattern_to_angles never returns angles for it.
C19_MalformedRejected ==
  /\ OfPatternCall("validate_pattern") => (result.value <=> WellFormed(call.arg))
  /\ (OfPatternCall("update_pattern") /\ ~WellFormed(call.arg)) =>
        result.value = "Invalid pattern format"
  /\ (OfPatternCall("pattern_to_angles") /\ ~WellFormed(call.arg)) =>
        result.kind = "raised"

\* the one-digit string "1" was converted to the angles of 000 and 001
C19_Witness ==
  /\ OfPatternCall("pattern_to_angles") /\ call.arg = << "1" >>
  /\ result = Returned(<< 66, 84 >>)

OfPulse == call.fn = "_pulse_to_angle" /\ result # NoResult

\* the pulse width brought into 500..2500
Clamped(w) == IF w < 500 THEN 500 ELSE IF w > 2500 THEN 2500 ELSE w

InFlightWritten ==
  \E i \in 1..Len(textLog) :
    textLog[i].sid = sid /\ textLog[i].gidx = current_group_index

\* C21: after a send of a TEXT command has failed with SendFailure, at the submit
\* or at the delayed send of the next group, the group index does not point at a
\* group whose TEXT command was not written.
C21_FailedSendKeepsGroup ==
  (lastSend.kind = "TEXT" /\ lastSend.err = "SendFailure" /\ mpc = "idle"
     /\ sid > 0 /\ GroupInFlight) => InFlightWritten

\* the delayed send of the second group failed; the index is at the second group,
\* only the first was written and no send is scheduled
C21_Witness ==
  /\ sid = 1 /\ lastSend.kind = "TEXT" /\ lastSend.err = "SendFailure"
  /\ Len(textLog) = 1 /\ textLog[1].src = "submit"
  /\ Len(current_text_groups) = 2 /\ current_group_index = 1
  /\ timers = << >> /\ mpc = "idle"

\* this step takes a line off the link
TakesLine == lastRead'.n # lastRead.n

\* C22: a reader that takes a line off the link, whether it can be decoded or not
\* and whatever the callback makes of it, stays in its loop and leaves the
\* connection as it is; a reader ends on an error only without having taken a line.
C22_ContentNeverEndsReader ==
  [][ /\ TakesLine =>
           /\ UNCHANGED transportVars
           /\ \A t \in Threads : rpc'[t] # rpc[t] => rpc'[t] \in { "loop", "adv" }
      /\ (\E t \in Threads : rpc[t] = "loop" /\ rpc'[t] \in { "exit", "exit_err" }) =>
           ~TakesLine ]_vars

\* a line of undecodable bytes was taken off the link under a session and the
\* reader is in its loop, the connection up
C22_Witness ==
  /\ ~lastRead.decoded /\ lastRead.groups # << >>
  /\ rxbuf = << >>
  /\ is_connected /\ HandleOpen /\ rpc[connection] = "loop"

\* this step is the second half of the callback: the group index moves on
AdvanceStep == current_group_index' = current_group_index + 1

\* the session state is the one the last line was read under
AsRead == lastRead.groups = current_text_groups /\ lastRead.index = current_group_index

\* C23: when a submit on the main thread interleaves with the handling of an
\* event on the reader thread, the outcome is that of one of the two orders: the
\* group index moves on only if the session is as it was when the event was read
\* (event, then submit), or if the event completes the group now in flight
\* (submit, then event).
C23_SubmitAndEventSerializable ==
  [][ AdvanceStep => (AsRead \/ CompletesGroup(lastRead.line)) ]_vars

\* the event "a" of the first session moved the index of the second session, for
\* the text "b", past its only group, while the device had yet to report "b"
C23_Witness ==
  /\ sid = 2 /\ current_text_groups = << << "b" >> >> /\ current_group_index = 1
  /\ lastRead.line.tok = << "a" >> /\ lastRead.groups = << << "a" >> >>
  /\ devq = << "b" >> /\ rxbuf = << >>

\* C24: the delay of every send scheduled or made for the session in flight is
\* the char_delay read when that session was submitted, whatever the delay entry
\* was changed to since.
C24_DelayReadAtSubmit ==
  /\ \A i \in 1..Len(timers) : timers[i].sid = sid => timers[i].delay = subDelay
  /\ \A i \in 1..Len(textLog) :
       (textLog[i].src = "timer" /\ textLog[i].sid = sid) => textLog[i].delay = subDelay

\* the session was submitted with delay 0, the entry was then set to 1, and the
\* second group was sent one tick after the event that completed the first
C24_Witness ==
  /\ sid = 1 /\ subDelay = 0 /\ char_delay_var = 1
  /\ Len(textLog) = 2 /\ textLog[2].src = "timer" /\ textLog[2].sid = 1
  /\ textLog[2].delay = 1 /\ textLog[2].waited = 1

\* this step is a submit with nothing left after trimming
EmptySubmitStep == empties' # empties /\ sid' = sid

\* C25: a submit whose text is empty after trimming writes no command and leaves
\* the text, the group list and the group index as they were.
C25_EmptySubmitChangesNothing ==
  [][ EmptySubmitStep =>
        /\ UNCHANGED << current_text, current_text_groups, current_group_index >>
        /\ UNCHANGED << textLog, devq, rxbuf, timers >> ]_vars

\* an empty submit was made while the second group of "aba" was in flight
C25_Witness ==
  /\ empties = 1 /\ sid = 1
  /\ current_text_groups = << << "a", "b" >>, << "a" >> >> /\ current_group_index = 1
  /\ Len(textLog) = 2

\* the lowest position of the group that holds the character c and that no event
\* was attributed to yet, -1 when there is none
LeftmostUnmatched(grp, c) ==
  LET free == { i \in 0..(Len(grp) - 1) : grp[i + 1] = c /\ i \notin matched }
  IN  IF free = {} THEN -1 ELSE CHOOSE i \in free : \A j \in free : i <= j

\* this step hands to the callback the report of a single character
ReportStep == TakesLine /\ lastRead'.decoded /\ Head(rxbuf).isChar /\ Len(Head(rxbuf).tok) = 1

\* C26: a report of a character that the group in flight holds at a position not
\* matched by an earlier event of the group is attributed to the leftmost such
\* position.
C26_LeftmostUnmatched ==
  [][ (/\ ReportStep /\ GroupInFlight
       /\ LeftmostUnmatched(CurrentGroup, Head(rxbuf).tok[1]) >= 0
       /\ HasDisplay(LeftmostUnmatched(CurrentGroup, Head(rxbuf).tok[1])))
        => lastRead'.pos = LeftmostUnmatched(CurrentGroup, Head(rxbuf).tok[1]) ]_vars

\* "aa" with group size 2: the device has reported both characters, the second
\* report went to position 0 again and position 1 has no event
C26_Witness ==
  /\ sid = 1 /\ current_text_groups = << << "a", "a" >> >> /\ current_group_index = 0
  /\ devq = << >> /\ rxbuf = << >>
  /\ lastRead.line.tok = << "a" >> /\ lastRead.pos = 0 /\ matched = { 0 }
  /\ lastRead.n = 0

\* C29: an event attributed to the last position of the group in flight takes the
\* callback to the completion of the group, whether or not an event was
\* attributed to each earlier position.
C29_LastPositionCompletes ==
  [][ (TakesLine /\ GroupInFlight /\ lastRead'.pos = Len(CurrentGroup) - 1) =>
        \E t \in Threads : rpc[t] = "loop" /\ rpc'[t] = "adv" ]_vars

\* "ab" with group size 2: the event "b" has completed the group and no event was
\* attributed to position 0
C29_Witness ==
  /\ GroupInFlight /\ CurrentGroup = << "a", "b" >>
  /\ \E t \in Threads : rpc[t] = "adv"
  /\ lastRead.line.tok = << "b" >> /\ lastRead.pos = 1 /\ matched = { 1 }

\* the character a token stands for: the space for the empty token
ReportedChar(tok) == IF tok = << >> THEN " " ELSE tok[1]

\* C30: the position a character report was attributed to holds the reported
\* character: the space for a token that is empty after trimming, and no position
\* at all for a token of more than one character.
C30_AttributedPositionHoldsChar ==
  (lastRead.decoded /\ lastRead.line.isChar /\ lastRead.pos >= 0) =>
      /\ Len(lastRead.line.tok) <= 1
      /\ lastRead.groups[lastRead.index + 1][lastRead.pos + 1]
           = ReportedChar(lastRead.line.tok)

\* the group "a" was in flight and the device had yet to report it: a report with
\* an empty token was attributed to position 0 and completed the group
C30_Witness ==
  /\ sid = 1 /\ current_text_groups = << << "a" >> >> /\ current_group_index = 1
  /\ devq = << "a" >>
  /\ lastRead.decoded /\ lastRead.line = [isChar |-> TRUE, tok |-> << >>]
  /\ lastRead.pos = 0 /\ lastRead.groups = current_text_groups /\ lastRead.index = 0

\* C27: no line is handed to the message callback after a disconnect has returned
\* and before the next connect.
C27_NoCallbackAfterDisconnect == ~reads.late

\* the reader had taken a line when the disconnect began; the disconnect returned
\* with the handle closed, and the line was then handed to the callback and shown
C27_Witness ==
  /\ reads.late /\ discRuns = 1 /\ mpc = "idle" /\ ~is_connected /\ ~HandleOpen
  /\ char_displays[1] = << "a" >>

\* the TEXT commands written for the session in flight name its groups in
\* increasing order, none twice
WrittenInOrder ==
  \A i, j \in 1..Len(textLog) :
    (i < j /\ textLog[i].sid = sid /\ textLog[j].sid = sid) =>
        textLog[i].gidx < textLog[j].gidx

\* C28: within a session, whatever telemetry arrives, the group index stays
\* within 0..number of groups and never decreases, the TEXT commands of the
\* groups are written in increasing group order and none twice, and once the
\* index equals the number of groups no step moves it or schedules a send.
C28_IndexMonotoneWritesOrdered ==
  /\ [](/\ current_group_index \in 0..Len(current_text_groups)
        /\ WrittenInOrder)
  /\ [][ sid' = sid =>
           /\ current_group_index' >= current_group_index
           /\ (current_text_groups # << >> /\ SessionComplete) =>
                (current_group_index' = current_group_index
                   /\ Len(timers') <= Len(timers)) ]_vars

\* "ababa" with group size 2: the third group was written before the second,
\* whose send is still pending
C28_Witness ==
  /\ sid = 1 /\ Len(current_text_groups) = 3
  /\ Len(textLog) = 2 /\ textLog[2].sid = 1 /\ textLog[2].gidx = 2
  /\ Len(timers) = 1 /\ timers[1].sid = 1 /\ timers[1].gidx = 1

====
